---- MODULE Spec2Model ----
(***************************************************************************)
(* A model of the malware-scan pipeline of clamav/scan.py:                 *)
(*                                                                         *)
(*   - aggregate_scan_result, the reduction of a sequence of per-item      *)
(*     scan results to one verdict (specification SpecAgg);                *)
(*   - scan_oci_image / scan_oci_blob / scan_oci_blob_filewise /           *)
(*     scan_oci_blob_layerwise, the generators that fetch the layer blobs  *)
(*     of an image and submit them to the scan client (specification       *)
(*     Spec), and _iter_layers on its own (specification SpecLayers);      *)
(*   - wait_until_deployment_available of kube/helper.py, the watch on a   *)
(*     deployment (specification SpecWait);                                *)
(*   - sync_org_webhooks of concourse/util.py, the loop over the required  *)
(*     organization webhooks (specification SpecHooks).                    *)
(*                                                                         *)
(* Durations (floats in the source) are modelled as naturals.  A called    *)
(* generator function only creates a generator; its body runs in the       *)
(* thread that iterates it, which is how the scan side is stepped.         *)
(***************************************************************************)
EXTENDS Integers, Sequences, FiniteSets, TLC

VARIABLES
    \* ---- aggregate_scan_result --------------------------------------
    resource,                 \* argument: the scanned resource
    results,                  \* argument: the per-item scan results
    agg_pos,                  \* number of items the for-loop has taken
    count,                    \* local, scan.py:83
    succeeded,                \* local, scan.py:84
    scanned_octets,           \* local, scan.py:85
    scan_duration_seconds,    \* local, scan.py:86
    upload_duration_seconds,  \* local, scan.py:87
    findings,                 \* local, scan.py:88
    agg_pc,                   \* "loop", "returned" or "raised"
    agg_return,               \* the AggregatedScanResult returned
    agg_raised,               \* the exception raised
    \* ---- scan_oci_image and the generators it drives ----------------
    image_reference,          \* argument of scan_oci_image
    manifest,                 \* what oci_client.manifest answers
    blob_content,             \* what oci_client.blob answers, per digest
    layer_blobs,              \* local of scan_oci_image, scan.py:196
    img_pc,                   \* position of scan_oci_image's body
    executor,                 \* the ThreadPoolExecutor: "none" or "open"
    future,                   \* per layer: the state of the pool's task
    cur,                      \* the layer whose generator is being drained
    blob_pc,                  \* per layer: position of scan_oci_blob's body
    entry_pos,                \* per layer: tar entries read so far
    blob_exc,                 \* per layer: the exception scan_oci_blob raised
    tmpfh,                    \* per layer: state of the temporary file
    fetches,                  \* blob requests made, in order
    calls,                    \* clamav_client.scan calls made, in order
    yielded,                  \* results scan_oci_image has yielded, in order
    raised,                   \* the exception scan_oci_image raised
    \* ---- wait_until_deployment_available (kube/helper.py) ----------
    clock,                    \* time.time(), in ticks
    timeout_seconds,          \* argument
    start_time,               \* local, helper.py:287
    wait_pc,                  \* "while", "stream" or "returned"
    stream_start,             \* the clock when w.stream was last called
    event,                    \* the event the for-loop took last
    seen_available,           \* an event showed the deployment available
    errors,                   \* ProtocolErrors ignored so far
    wait_return,              \* the value returned
    \* ---- sync_org_webhooks (concourse/util.py) ----------------------
    required,                 \* what _enumerate_required_org_webhooks yields
    hook_pos,                 \* number of webhooks the for-loop has taken
    failed_hooks,             \* local, util.py:76; unbound before that line
    attempts,                 \* create_or_update_org_hook calls, in order
    log,                      \* the records logged, in order
    hook_pc,                  \* "loop", "returned" or "raised"
    hook_raised               \* the exception raised

aggVars == <<resource, results, agg_pos, count, succeeded, scanned_octets,
             scan_duration_seconds, upload_duration_seconds, findings,
             agg_pc, agg_return, agg_raised>>

scanVars == <<image_reference, manifest, blob_content, layer_blobs, img_pc,
              executor, future, cur, blob_pc, entry_pos, blob_exc, tmpfh,
              fetches,
              calls, yielded, raised>>

waitVars == <<clock, timeout_seconds, start_time, wait_pc, stream_start,
              event, seen_available, errors, wait_return>>

hookVars == <<required, hook_pos, failed_hooks, attempts, log, hook_pc,
              hook_raised>>

vars == <<aggVars, scanVars, waitVars, hookVars>>

\* ---------------------------------------------------------------- bounds

\* longest sequence of results handed to aggregate_scan_result
MaxResults == 3
\* most layers of an image
MaxLayers == 2
\* most tar entries of all the blobs of an image together
MaxEntries == 2
\* most entries of a manifest list
MaxSubs == 2
\* most layers of an image whose layers are only enumerated
MaxListLayers == 4
\* ticks of the clock per second
TicksPerSecond == 2
\* longest timeout, in seconds, and the last tick of the clock
MaxTimeout == 2
MaxClock == 6
\* most ProtocolErrors in one call
MaxErrors == 2
\* most required organization webhooks
MaxHooks == 3

\* ------------------------------------------------------------ value sets

ScanStatus == {"SCAN_SUCCEEDED", "SCAN_FAILED"}

MalwareStatus == {"OK", "UNKNOWN", "FOUND_MALWARE"}

\* meta of a scan result: two values that differ in every field, so that a
\* sum over the wrong field or the wrong items shows.
Metas ==
    { [scanned_octets |-> 0, scan_duration_seconds |-> 0,
       receive_duration_seconds |-> 0],
      [scanned_octets |-> 4, scan_duration_seconds |-> 1,
       receive_duration_seconds |-> 2] }

\* The scan results handed to the aggregator.  A failed scan carries
\* malware_status UNKNOWN; a succeeded scan carries OK or FOUND_MALWARE, or
\* else UNKNOWN, the combination scan.py:102 tests for.
ScanResults ==
    [status : {"SCAN_FAILED"}, malware_status : {"UNKNOWN"}, meta : Metas]
    \cup
    [status : {"SCAN_SUCCEEDED"}, malware_status : MalwareStatus, meta : Metas]

\* The resources: one per branch of scan.py:120-126.
Resources ==
    { [access |-> "OciAccess", imageReference |-> "registry/image:1"],
      [access |-> "S3Access", bucketName |-> "bucket", objectKey |-> "key"],
      [access |-> "LocalAccess"] }

SeqsUpTo(S, n) == UNION { [1..k -> S] : k \in 0..n }

NoValue == [none |-> TRUE]

\* ============================================================ aggregation
\* aggregate_scan_result, scan.py:78-137

\* the locals of aggregate_scan_result as a record
Locals ==
    [count |-> count, succeeded |-> succeeded,
     scanned_octets |-> scanned_octets,
     scan_duration_seconds |-> scan_duration_seconds,
     upload_duration_seconds |-> upload_duration_seconds,
     findings |-> findings, raises |-> "none"]

\* mutant: the sums are accumulated before the status is looked at
ForBody_SumsEveryItem(l, result) ==
    LET summed == [l EXCEPT
            !.count = @ + 1,
            !.scanned_octets = @ + result.meta.scanned_octets,
            !.scan_duration_seconds = @ + result.meta.scan_duration_seconds,
            !.upload_duration_seconds = @ + result.meta.receive_duration_seconds]
    IN  IF result.status = "SCAN_FAILED"
        THEN [summed EXCEPT !.succeeded = FALSE]
        ELSE CASE result.malware_status = "OK" -> summed
               [] result.malware_status = "UNKNOWN" ->
                    [summed EXCEPT !.raises = "ValueError"]
               [] result.malware_status = "FOUND_MALWARE" ->
                    [summed EXCEPT !.findings = Append(@, result)]
               [] OTHER -> [summed EXCEPT !.raises = "NotImplementedError"]

\* mutant: a finding is put in front of the findings, not behind them
ForBody_PrependsFinding(l, result) ==
    LET counted == [l EXCEPT !.count = @ + 1]
    IN  IF result.status = "SCAN_FAILED"
        THEN [counted EXCEPT !.succeeded = FALSE]
        ELSE LET summed == [counted EXCEPT
                    !.scanned_octets = @ + result.meta.scanned_octets,
                    !.scan_duration_seconds = @ + result.meta.scan_duration_seconds,
                    !.upload_duration_seconds = @ + result.meta.receive_duration_seconds]
             IN  CASE result.malware_status = "OK" -> summed
                   [] result.malware_status = "UNKNOWN" ->
                        [summed EXCEPT !.raises = "ValueError"]
                   [] result.malware_status = "FOUND_MALWARE" ->
                        [summed EXCEPT !.findings = <<result>> \o @]
                   [] OTHER -> [summed EXCEPT !.raises = "NotImplementedError"]

\* mutant: a succeeded scan with malware_status UNKNOWN is passed over once
\* an earlier item has failed
ForBody_UnknownAfterFailure(l, result) ==
    LET counted == [l EXCEPT !.count = @ + 1]
    IN  IF result.status = "SCAN_FAILED"
        THEN [counted EXCEPT !.succeeded = FALSE]
        ELSE LET summed == [counted EXCEPT
                    !.scanned_octets = @ + result.meta.scanned_octets,
                    !.scan_duration_seconds = @ + result.meta.scan_duration_seconds,
                    !.upload_duration_seconds = @ + result.meta.receive_duration_seconds]
             IN  CASE result.malware_status = "OK" -> summed
                   [] result.malware_status = "UNKNOWN" ->
                        IF l.succeeded
                        THEN [summed EXCEPT !.raises = "ValueError"]
                        ELSE summed
                   [] result.malware_status = "FOUND_MALWARE" ->
                        [summed EXCEPT !.findings = Append(@, result)]
                   [] OTHER -> [summed EXCEPT !.raises = "NotImplementedError"]

\* one iteration of the for-loop, scan.py:90-107: the locals after it, and
\* the exception it raises ("none": it raises none)
ForBody(l, result) ==
    LET counted == [l EXCEPT !.count = @ + 1]
    IN  IF result.status = "SCAN_FAILED"
        THEN [counted EXCEPT !.succeeded = FALSE]
        ELSE LET summed == [counted EXCEPT
                    !.scanned_octets = @ + result.meta.scanned_octets,
                    !.scan_duration_seconds = @ + result.meta.scan_duration_seconds,
                    !.upload_duration_seconds = @ + result.meta.receive_duration_seconds]
             IN  CASE result.malware_status = "OK" -> summed
                   [] result.malware_status = "UNKNOWN" ->
                        [summed EXCEPT !.raises = "ValueError"]
                   [] result.malware_status = "FOUND_MALWARE" ->
                        [summed EXCEPT !.findings = Append(@, result)]
                   [] OTHER -> [summed EXCEPT !.raises = "NotImplementedError"]

\* mutant: an empty iterator is not refused
NoElements_Never(n) == FALSE

\* scan.py:109: the iterator did not contain any elements
NoElements(n) == n = 0

\* mutant: the findings decide before the failures do
Verdict_FindingsFirst(ok, found) ==
    IF Len(found) >= 1 THEN "FOUND_MALWARE"
    ELSE IF ok THEN "OK" ELSE "UNKNOWN"

\* mutant: one finding is not enough
Verdict_OneFindingIsOk(ok, found) ==
    IF ok
    THEN IF Len(found) < 2 THEN "OK" ELSE "FOUND_MALWARE"
    ELSE "UNKNOWN"

\* the verdict, scan.py:112-118
Verdict(ok, found) ==
    IF ok
    THEN IF Len(found) < 1 THEN "OK" ELSE "FOUND_MALWARE"
    ELSE "UNKNOWN"

\* the resource's url, scan.py:120-126
ResourceUrl_KeyBeforeBucket(r) ==
    IF r.access = "OciAccess" THEN r.imageReference
    ELSE IF r.access = "S3Access"
         THEN "s3://" \o r.objectKey \o "/" \o r.bucketName
         ELSE "<unknown>"

ResourceUrl(r) ==
    IF r.access = "OciAccess" THEN r.imageReference
    ELSE IF r.access = "S3Access"
         THEN "s3://" \o r.bucketName \o "/" \o r.objectKey
         ELSE "<unknown>"

\* the AggregatedScanResult constructed at scan.py:128-137
AggregatedScanResult ==
    [resource_url |-> ResourceUrl(resource),
     malware_status |-> Verdict(succeeded, findings),
     findings |-> findings,
     scan_count |-> count,
     scanned_octets |-> scanned_octets,
     scan_duration_seconds |-> scan_duration_seconds,
     upload_duration_seconds |-> upload_duration_seconds]

\* the for-loop takes the next result, scan.py:90-107
AggIterate ==
    /\ agg_pc = "loop"
    /\ agg_pos < Len(results)
    /\ LET l == ForBody(Locals, results[agg_pos + 1])
       IN  /\ agg_pos' = agg_pos + 1
           /\ count' = l.count
           /\ succeeded' = l.succeeded
           /\ scanned_octets' = l.scanned_octets
           /\ scan_duration_seconds' = l.scan_duration_seconds
           /\ upload_duration_seconds' = l.upload_duration_seconds
           /\ findings' = l.findings
           /\ IF l.raises = "none"
              THEN UNCHANGED <<agg_pc, agg_raised>>
              ELSE agg_pc' = "raised" /\ agg_raised' = l.raises
    /\ UNCHANGED <<resource, results, agg_return, scanVars, waitVars, hookVars>>

\* the iterator is exhausted: scan.py:109-137
AggFinish ==
    /\ agg_pc = "loop"
    /\ agg_pos = Len(results)
    /\ IF NoElements(count)
       THEN /\ agg_pc' = "raised"
            /\ agg_raised' = "ValueError"
            /\ UNCHANGED agg_return
       ELSE /\ agg_pc' = "returned"
            /\ agg_return' = AggregatedScanResult
            /\ UNCHANGED agg_raised
    /\ UNCHANGED <<resource, results, agg_pos, count, succeeded,
                   scanned_octets, scan_duration_seconds,
                   upload_duration_seconds, findings, scanVars, waitVars, hookVars>>

\* the scan side at rest: the aggregator is checked on its own
\* a local variable no statement has assigned yet
Unbound == [bound |-> FALSE, value |-> 0]

\* sync_org_webhooks at rest
HookIdle ==
    /\ required = <<>>
    /\ hook_pos = 0
    /\ failed_hooks = Unbound
    /\ attempts = <<>>
    /\ log = <<>>
    /\ hook_pc = "idle"
    /\ hook_raised = "none"

\* wait_until_deployment_available at rest
WaitIdle ==
    /\ clock = 0
    /\ timeout_seconds = 0
    /\ start_time = 0
    /\ wait_pc = "idle"
    /\ stream_start = 0
    /\ event = NoValue
    /\ seen_available = FALSE
    /\ errors = 0
    /\ wait_return = NoValue

ScanIdle ==
    /\ image_reference = "registry/image:1"
    /\ manifest = [kind |-> "OciImageManifest", layers |-> <<>>]
    /\ blob_content = <<>>
    /\ layer_blobs = <<>>
    /\ img_pc = "idle"
    /\ executor = "none"
    /\ future = <<>>
    /\ cur = 0
    /\ blob_pc = <<>>
    /\ entry_pos = <<>>
    /\ blob_exc = <<>>
    /\ tmpfh = <<>>
    /\ fetches = <<>>
    /\ calls = <<>>
    /\ yielded = <<>>
    /\ raised = NoValue

\* aggregate_scan_result is entered, scan.py:83-88
AggEntry ==
    /\ agg_pos = 0
    /\ count = 0
    /\ succeeded = TRUE
    /\ scanned_octets = 0
    /\ scan_duration_seconds = 0
    /\ upload_duration_seconds = 0
    /\ findings = <<>>
    /\ agg_pc = "loop"
    /\ agg_return = NoValue
    /\ agg_raised = "none"

InitAgg ==
    /\ resource \in Resources
    /\ results \in SeqsUpTo(ScanResults, MaxResults)
    /\ AggEntry
    /\ ScanIdle
    /\ WaitIdle
    /\ HookIdle

NextAgg == AggIterate \/ AggFinish

SpecAgg == InitAgg /\ [][NextAgg]_vars

\* ------------------------------------------------- aggregation: properties

\* aggregate_scan_result has returned or raised
AggDone == agg_pc \in {"returned", "raised"}

IsFailed(r) == r.status = "SCAN_FAILED"

IsFound(r) == r.malware_status = "FOUND_MALWARE"

IsSucceededUnknown(r) ==
    r.status = "SCAN_SUCCEEDED" /\ r.malware_status = "UNKNOWN"

HasFailed == \E i \in 1..Len(results) : IsFailed(results[i])

HasFound == \E i \in 1..Len(results) : IsFound(results[i])

HasSucceededUnknown == \E i \in 1..Len(results) : IsSucceededUnknown(results[i])

\* the sum of meta field f over the succeeded items of s
RECURSIVE SumSucceeded(_, _)
SumSucceeded(s, f) ==
    IF s = <<>> THEN 0
    ELSE (IF IsFailed(Head(s)) THEN 0 ELSE Head(s).meta[f])
         + SumSucceeded(Tail(s), f)

\* C1, as claimed: for every non-empty sequence of results with at least one
\* SCAN_FAILED item, aggregate_scan_result returns malware_status UNKNOWN.
C1_AsClaimed ==
    (AggDone /\ results # <<>> /\ HasFailed)
        => (agg_pc = "returned" /\ agg_return.malware_status = "UNKNOWN")

\* C1, amended: for every non-empty sequence of results with at least one
\* SCAN_FAILED item and no succeeded item of malware_status UNKNOWN,
\* aggregate_scan_result returns malware_status UNKNOWN, whatever the number
\* of FOUND_MALWARE items and wherever the failed item stands.
C1_FailureGivesUnknown ==
    (AggDone /\ results # <<>> /\ HasFailed /\ ~HasSucceededUnknown)
        => (agg_pc = "returned" /\ agg_return.malware_status = "UNKNOWN")

\* a failed item between two findings, and the verdict UNKNOWN
C1_Witness ==
    /\ agg_pc = "returned"
    /\ Len(results) = 3
    /\ IsFound(results[1]) /\ IsFailed(results[2]) /\ IsFound(results[3])
    /\ agg_return.malware_status = "UNKNOWN"

\* C2, as claimed: for every non-empty sequence of results without a
\* SCAN_FAILED item, aggregate_scan_result returns FOUND_MALWARE if at least
\* one item has malware_status FOUND_MALWARE, and OK otherwise.
C2_AsClaimed ==
    (AggDone /\ results # <<>> /\ ~HasFailed)
        => /\ agg_pc = "returned"
           /\ agg_return.malware_status
                = (IF HasFound THEN "FOUND_MALWARE" ELSE "OK")

\* C2, amended: for every non-empty sequence of results without a
\* SCAN_FAILED item and without a succeeded item of malware_status UNKNOWN,
\* aggregate_scan_result returns FOUND_MALWARE if and only if at least one
\* item has malware_status FOUND_MALWARE, and OK otherwise.
C2_FindingsDecide ==
    (AggDone /\ results # <<>> /\ ~HasFailed /\ ~HasSucceededUnknown)
        => /\ agg_pc = "returned"
           /\ agg_return.malware_status
                = (IF HasFound THEN "FOUND_MALWARE" ELSE "OK")

\* one finding among clean items, no failure, and the verdict FOUND_MALWARE
C2_Witness ==
    /\ agg_pc = "returned"
    /\ Len(results) = 3
    /\ ~HasFailed
    /\ ~IsFound(results[1]) /\ IsFound(results[2]) /\ ~IsFound(results[3])
    /\ agg_return.malware_status = "FOUND_MALWARE"

\* C3: whenever aggregate_scan_result returns, its findings are the input
\* results of malware_status FOUND_MALWARE, in input order, none added,
\* dropped or duplicated.
C3_FindingsAreTheFound ==
    agg_pc = "returned" => agg_return.findings = SelectSeq(results, IsFound)

\* two different findings around an item that is none
C3_Witness ==
    /\ agg_pc = "returned"
    /\ Len(results) = 3
    /\ IsFound(results[1]) /\ ~IsFound(results[2]) /\ IsFound(results[3])
    /\ results[1] # results[3]
    /\ agg_return.findings = <<results[1], results[3]>>

\* C4: called with an empty sequence, aggregate_scan_result raises and
\* returns no AggregatedScanResult, whatever the access of the resource.
C4_EmptyRaises ==
    (AggDone /\ results = <<>>)
        => /\ agg_pc = "raised"
           /\ agg_raised = "ValueError"
           /\ agg_return = NoValue

\* the empty sequence, refused for a resource that is neither OCI nor S3
C4_Witness ==
    /\ agg_pc = "raised"
    /\ results = <<>>
    /\ resource.access = "LocalAccess"

\* C5: in the result, scan_count counts every item, failed or not, and
\* scanned_octets, scan_duration_seconds and upload_duration_seconds are the
\* sums over the succeeded items only.
C5_CountAllSumSucceeded ==
    agg_pc = "returned"
        => /\ agg_return.scan_count = Len(results)
           /\ agg_return.scanned_octets
                = SumSucceeded(results, "scanned_octets")
           /\ agg_return.scan_duration_seconds
                = SumSucceeded(results, "scan_duration_seconds")
           /\ agg_return.upload_duration_seconds
                = SumSucceeded(results, "receive_duration_seconds")

\* a failed item whose meta is not zero among succeeded ones that are summed
C5_Witness ==
    /\ agg_pc = "returned"
    /\ Len(results) = 3
    /\ ~IsFailed(results[1]) /\ IsFailed(results[2]) /\ ~IsFailed(results[3])
    /\ \A i \in 1..3 : results[i].meta.scanned_octets > 0
    /\ agg_return.scan_count = 3
    /\ agg_return.scanned_octets
         = results[1].meta.scanned_octets + results[3].meta.scanned_octets

\* C6: if any item is a succeeded scan of malware_status UNKNOWN,
\* aggregate_scan_result raises (ValueError, at the first such item) and
\* returns no verdict, whatever the other items are.
C6_SucceededUnknownRaises ==
    (AggDone /\ HasSucceededUnknown)
        => /\ agg_pc = "raised"
           /\ agg_raised = "ValueError"
           /\ agg_return = NoValue
           /\ IsSucceededUnknown(results[agg_pos])
           /\ \A i \in 1..(agg_pos - 1) : ~IsSucceededUnknown(results[i])

\* the error raised for an item that follows a failed one
C6_Witness ==
    /\ agg_pc = "raised"
    /\ Len(results) = 3
    /\ IsFailed(results[1]) /\ IsSucceededUnknown(results[2])
    /\ agg_pos = 2

\* C14: the resource_url of the aggregated result is the image reference
\* as it stands for a resource of OCI access, "s3://{bucket}/{key}" for one
\* of S3 access and "<unknown>" for one of any other access, for which the
\* call raises no more than for the others: only for no result at all or for
\* a succeeded scan of malware_status UNKNOWN.
C14_ResourceUrlByAccess ==
    /\ agg_pc = "returned"
         => /\ resource.access = "OciAccess"
                 => agg_return.resource_url = "registry/image:1"
            /\ resource.access = "S3Access"
                 => agg_return.resource_url = "s3://bucket/key"
            /\ resource.access \notin {"OciAccess", "S3Access"}
                 => agg_return.resource_url = "<unknown>"
    /\ agg_pc = "raised" => (results = <<>> \/ HasSucceededUnknown)

\* the result for a resource of S3 access
C14_Witness ==
    /\ agg_pc = "returned"
    /\ resource = [access |-> "S3Access", bucketName |-> "bucket",
                   objectKey |-> "key"]
    /\ agg_return.resource_url = "s3://bucket/key"

\* ============================================================== scanning
\* scan_oci_image and the generators it drives, scan.py:191-288

\* the types of tar entries: a regular file, a directory, a symbolic link
EntryTypes == {"REGTYPE", "DIRTYPE", "SYMTYPE"}

\* the name of the j-th entry of an archive
EntryName(j) == "entry" \o ToString(j)

\* the digest of the i-th layer of the image
Digest(i) == "sha256:" \o ToString(i)

\* What a blob holds: the entries a tar reader reads from it, and whether
\* the reader then fails with a TarError (corrupt) or reaches the end of the
\* archive.  A blob that is no tar archive is corrupt before any entry.
BlobContents == [entries : SeqsUpTo(EntryTypes, MaxEntries), corrupt : BOOLEAN]

RECURSIVE TotalEntries(_, _)
TotalEntries(c, n) ==
    IF n = 0 THEN 0 ELSE Len(c[n].entries) + TotalEntries(c, n - 1)

\* the thread that iterates scan_oci_image, and a thread of the pool
CallerThread == "caller"
PoolThread == "worker"

\* The manifests the registry holds for the image: an image manifest with its
\* layers, a manifest list with, per entry, the digest and the manifest
\* stored under that digest, or anything else.
ImageManifest(layers) == [kind |-> "OciImageManifest", layers |-> layers]

ManifestList(subs) == [kind |-> "OciImageManifestList", manifests |-> subs]

SubManifest(k, m) == [digest |-> "sha256:m" \o ToString(k), manifest |-> m]

OtherManifest == [kind |-> "Other"]

\* the manifests an image of the layers ls is served with: one image
\* manifest, or a list of two that split the layers behind the first
ManifestsOf(ls) ==
    {ImageManifest(ls)}
    \cup (IF Len(ls) >= 1
          THEN {ManifestList(<<SubManifest(1, ImageManifest(SubSeq(ls, 1, 1))),
                               SubManifest(2, ImageManifest(SubSeq(ls, 2, Len(ls))))>>)}
          ELSE {OtherManifest,
                ManifestList(<<>>),
                ManifestList(<<SubManifest(1, ImageManifest(<<>>)),
                               SubManifest(2, OtherManifest)>>)})
    \cup (IF Len(ls) >= 1
          THEN {ManifestList(<<SubManifest(1, ImageManifest(ls)),
                               SubManifest(2, OtherManifest)>>)}
          ELSE {})

\* every entry of the manifest lists of m, at any depth
RECURSIVE SubEntries(_)
SubEntries(m) ==
    IF m.kind = "OciImageManifestList"
    THEN UNION { {m.manifests[k]} \cup SubEntries(m.manifests[k].manifest) :
                 k \in 1..Len(m.manifests) }
    ELSE {}

\* the answer of the registry to a reference it holds no manifest for
NotFound == [kind |-> "NotFound"]

\* scan.py:167-170, oci_client.manifest(image_reference=ref): the registry
\* holds the image's own manifest under the image reference and every
\* manifest a list names under "{repository}@{digest}"
OciClientManifest(ref) ==
    IF ref = image_reference THEN manifest
    ELSE LET hits == {e \in SubEntries(manifest) :
                        "registry/image@" \o e.digest = ref}
         IN  IF hits = {} THEN NotFound
             ELSE (CHOOSE e \in hits : TRUE).manifest

\* scan.py:179, to_image_ref(...).ref_without_tag: the reference without its
\* tag or digest; every reference of the model is one of registry/image
RefWithoutTag(ref) == "registry/image"

\* a reference that kept the tag of the image reference
SubManifestRef_KeepsTag(ref, digest) == ref \o "@" \o digest

\* scan.py:182: the reference a sub-manifest is requested with
SubManifestRef(ref, digest) == RefWithoutTag(ref) \o "@" \o digest

\* _iter_layers, scan.py:156-188: the flattened layers of the image under
\* the reference ref, and the exception raised on the way ("none": none)
RECURSIVE IterLayers(_)
RECURSIVE IterSubManifests(_, _)
IterSubManifests(ref, subs) ==
    IF subs = <<>> THEN [layers |-> <<>>, raises |-> "none"]
    ELSE LET first == IterLayers(SubManifestRef(ref, Head(subs).digest))
             rest == IterSubManifests(ref, Tail(subs))
         IN  IF first.raises # "none" THEN first
             ELSE [layers |-> first.layers \o rest.layers, raises |-> rest.raises]

\* an enumeration that passed over what is neither image manifest nor list
IterLayers_SkipsUnsupported(ref) ==
    LET m == OciClientManifest(ref)
    IN  IF m.kind = "NotFound"
        THEN [layers |-> <<>>, raises |-> "RegistryError"]
        ELSE IF m.kind = "OciImageManifest"
        THEN [layers |-> m.layers, raises |-> "none"]
        ELSE IF m.kind # "OciImageManifestList"
             THEN [layers |-> <<>>, raises |-> "none"]
             ELSE IterSubManifests(ref, m.manifests)

IterLayers(ref) ==
    LET m == OciClientManifest(ref)
    IN  IF m.kind = "NotFound"
        THEN [layers |-> <<>>, raises |-> "RegistryError"]
        ELSE IF m.kind = "OciImageManifest"
        THEN [layers |-> m.layers, raises |-> "none"]
        ELSE IF m.kind # "OciImageManifestList"
             THEN [layers |-> <<>>, raises |-> "NotImplementedError"]
             ELSE IterSubManifests(ref, m.manifests)

\* mutant: every entry that is no directory is scanned
IsFile_NotDir(t) == t # "DIRTYPE"

\* tar_info.isfile(), scan.py:262
IsFile(t) == t = "REGTYPE"

\* the name of the scan of one file, scan.py:268
FilewiseName(img, digest, name) == img \o ":" \o digest \o ":" \o name

\* the name of the scan of a whole blob, scan.py:286
LayerwiseName(img, digest) == img \o ":" \o digest

\* mutant: the except clause catches nothing
Catches_Nothing(type) == FALSE

\* the exceptions the except clause of scan_oci_blob catches, scan.py:227
Catches_Everything(type) == TRUE

Catches(type) == type = "TarError"

\* mutant: the exception of a layer is swallowed and the next layer scanned
OnLayerException_Swallow(pc, exc) == [img_pc |-> pc, raised |-> NoValue]

\* what scan_oci_image does with an exception of a layer's generator: there
\* is no handler around scan.py:208-211, it leaves scan_oci_image
OnLayerException(pc, exc) == [img_pc |-> "raised", raised |-> exc]

Layers == 1..Len(layer_blobs)

\* scan.py:196: the layers are enumerated
Enumerate ==
    /\ img_pc = "start"
    /\ LET it == IterLayers(image_reference)
       IN  IF it.raises = "none"
           THEN /\ layer_blobs' = it.layers
                /\ img_pc' = "dispatch"
                /\ UNCHANGED raised
           ELSE /\ img_pc' = "raised"
                /\ raised' = [type |-> it.raises, layer |-> 0]
                /\ UNCHANGED layer_blobs
    /\ UNCHANGED <<image_reference, manifest, blob_content, executor, future,
                   cur, blob_pc, entry_pos, blob_exc, tmpfh, fetches, calls,
                   yielded, aggVars, waitVars, hookVars>>

\* scan.py:205-208: more than one layer; the executor is created and
\* executor.map submits one call of scan_oci_blob per layer
CreatePool ==
    /\ img_pc = "dispatch"
    /\ Len(layer_blobs) > 1
    /\ executor' = "open"
    /\ future' = [i \in Layers |-> "pending"]
    /\ cur' = 1
    /\ img_pc' = "pool"
    /\ UNCHANGED <<image_reference, manifest, blob_content, layer_blobs,
                   blob_pc, entry_pos, blob_exc, tmpfh, fetches, calls,
                   yielded, raised, aggVars, waitVars, hookVars>>

\* a thread of the pool runs its task: it calls scan_oci_blob, which creates
\* the generator and returns it as the future's result
WorkerRun(i) ==
    /\ executor = "open"
    /\ future[i] = "pending"
    /\ future' = [future EXCEPT ![i] = "done"]
    /\ blob_pc' = [blob_pc EXCEPT ![i] = "created"]
    /\ UNCHANGED <<image_reference, manifest, blob_content, layer_blobs,
                   img_pc, executor, cur, entry_pos, blob_exc, tmpfh, fetches,
                   calls, yielded, raised, aggVars, waitVars, hookVars>>

\* a dispatch that set up the executor for a single layer as well
ScanSingle_WithPool ==
    /\ img_pc = "dispatch"
    /\ Len(layer_blobs) = 1
    /\ executor' = "open"
    /\ blob_pc' = [blob_pc EXCEPT ![1] = "created"]
    /\ cur' = 1
    /\ img_pc' = "single"
    /\ UNCHANGED <<image_reference, manifest, blob_content, layer_blobs,
                   future, entry_pos, blob_exc, tmpfh, fetches, calls,
                   yielded, raised, aggVars, waitVars, hookVars>>

\* scan.py:211 with one layer: scan_oci_blob is called in the caller's thread
ScanSingle ==
    /\ img_pc = "dispatch"
    /\ Len(layer_blobs) = 1
    /\ blob_pc' = [blob_pc EXCEPT ![1] = "created"]
    /\ cur' = 1
    /\ img_pc' = "single"
    /\ UNCHANGED <<image_reference, manifest, blob_content, layer_blobs,
                   executor, future, entry_pos, blob_exc, tmpfh, fetches,
                   calls, yielded, raised, aggVars, waitVars, hookVars>>

\* a dispatch that had nothing to do for no layer
ScanNone_YieldsNothing ==
    /\ img_pc = "dispatch"
    /\ Len(layer_blobs) = 0
    /\ img_pc' = "done"
    /\ UNCHANGED <<image_reference, manifest, blob_content, layer_blobs,
                   executor, future, cur, blob_pc, entry_pos, blob_exc, tmpfh,
                   fetches, calls, yielded, raised, aggVars, waitVars, hookVars>>

\* scan.py:211 with no layer: layer_blobs[0] raises IndexError
ScanNone ==
    /\ img_pc = "dispatch"
    /\ Len(layer_blobs) = 0
    /\ img_pc' = "raised"
    /\ raised' = [type |-> "IndexError", layer |-> 0]
    /\ UNCHANGED <<image_reference, manifest, blob_content, layer_blobs,
                   executor, future, cur, blob_pc, entry_pos, blob_exc, tmpfh,
                   fetches, calls, yielded, aggVars, waitVars, hookVars>>

\* a loop that took the results of whichever layer is ready
Draining_AnyReady(i) ==
    /\ img_pc \in {"pool", "single"}
    /\ img_pc = "pool" => future[i] = "done"

\* scan_oci_image iterates the generator of layer i (yield from, scan.py:209
\* and 211); in the pool path it holds the future's result
Draining(i) ==
    /\ img_pc \in {"pool", "single"}
    /\ cur = i
    /\ img_pc = "pool" => future[i] = "done"

\* the generator of layer i raises exc, which leaves scan_oci_blob
BlobRaises(i, exc) ==
    /\ blob_pc' = [blob_pc EXCEPT ![i] = "raised"]
    /\ blob_exc' = [blob_exc EXCEPT ![i] = exc]
    /\ img_pc' = OnLayerException(img_pc, exc).img_pc
    /\ raised' = OnLayerException(img_pc, exc).raised

\* scan.py:220-235: exc is raised inside the try block of scan_oci_blob, by
\* the file-wise scan of layer i; the except clause takes it and the blob is
\* scanned as a whole, or it does not and exc leaves scan_oci_blob
FilewiseRaises(i, exc) ==
    IF Catches(exc.type)
    THEN /\ blob_pc' = [blob_pc EXCEPT ![i] = "layerwise"]
         /\ UNCHANGED <<blob_exc, img_pc, raised>>
    ELSE BlobRaises(i, exc)

\* a with-statement that left the file as it was
ExitWith_Leaks(fh) == fh

\* scan.py:251: the with-statement is left, by the end of its block or by an
\* exception passing through it, and the temporary file is closed
ExitWith(fh) == "closed"

\* a scan that, once the archive format of one blob has failed, took the
\* blobs behind it as a whole from the start
FilewiseFetch_StickyFallback(i) ==
    /\ Draining(i)
    /\ blob_pc[i] = "created"
    /\ IF \E k \in 1..Len(fetches) : fetches[k].path = "layerwise"
       THEN /\ blob_pc' = [blob_pc EXCEPT ![i] = "layerwise"]
            /\ tmpfh' = [tmpfh EXCEPT ![i] = "closed"]
            /\ UNCHANGED <<fetches, blob_exc, img_pc, raised>>
       ELSE /\ fetches' = Append(fetches,
                                 [layer |-> i, digest |-> layer_blobs[i],
                                  path |-> "filewise", thread |-> CallerThread])
            /\ blob_pc' = [blob_pc EXCEPT ![i] = "filewise"]
            /\ tmpfh' = [tmpfh EXCEPT ![i] = "open"]
            /\ UNCHANGED <<blob_exc, img_pc, raised>>
    /\ UNCHANGED <<image_reference, manifest, blob_content, layer_blobs,
                   executor, future, cur, entry_pos, calls, yielded, aggVars, waitVars, hookVars>>

\* scan.py:245-255: the blob is requested and written to a temporary file
FilewiseFetch(i) ==
    /\ Draining(i)
    /\ blob_pc[i] = "created"
    /\ fetches' = Append(fetches, [layer |-> i, digest |-> layer_blobs[i],
                                   path |-> "filewise", thread |-> CallerThread])
    /\ \E outcome \in {"ok", "blob_raises", "iter_content_raises"} :
         IF outcome = "ok"
         THEN /\ blob_pc' = [blob_pc EXCEPT ![i] = "filewise"]
              /\ tmpfh' = [tmpfh EXCEPT ![i] = "open"]
              /\ UNCHANGED <<blob_exc, img_pc, raised>>
         ELSE /\ FilewiseRaises(i, [type |-> "RegistryError", layer |-> i])
              /\ tmpfh' = [tmpfh EXCEPT ![i] =
                             IF outcome = "blob_raises" THEN @
                             ELSE ExitWith("open")]
    /\ UNCHANGED <<image_reference, manifest, blob_content, layer_blobs,
                   executor, future, cur, entry_pos, calls, yielded, aggVars, waitVars, hookVars>>

\* the tar reader has an entry left to read for layer i
HasEntry(i) == entry_pos[i] < Len(blob_content[layer_blobs[i]].entries)

NextEntryType(i) == blob_content[layer_blobs[i]].entries[entry_pos[i] + 1]

\* scan.py:261-263: the next entry is no regular file and is passed over
FilewiseSkip(i) ==
    /\ Draining(i)
    /\ blob_pc[i] = "filewise"
    /\ HasEntry(i)
    /\ ~IsFile(NextEntryType(i))
    /\ entry_pos' = [entry_pos EXCEPT ![i] = @ + 1]
    /\ UNCHANGED <<image_reference, manifest, blob_content, layer_blobs,
                   img_pc, executor, future, cur, blob_pc, blob_exc, tmpfh,
                   fetches, calls, yielded, raised, aggVars, waitVars, hookVars>>

\* scan.py:261-270: the next entry is a regular file; it is scanned and the
\* result yielded, or the scan client raises
FilewiseScan(i) ==
    /\ Draining(i)
    /\ blob_pc[i] = "filewise"
    /\ HasEntry(i)
    /\ IsFile(NextEntryType(i))
    /\ entry_pos' = [entry_pos EXCEPT ![i] = @ + 1]
    /\ LET name == FilewiseName(image_reference, layer_blobs[i],
                                EntryName(entry_pos[i] + 1))
       IN  /\ calls' = Append(calls, [layer |-> i, name |-> name,
                                      thread |-> CallerThread])
           /\ \E ok \in BOOLEAN :
                IF ok
                THEN /\ yielded' = Append(yielded, [layer |-> i, name |-> name])
                     /\ UNCHANGED <<blob_pc, blob_exc, tmpfh, img_pc, raised>>
                ELSE /\ FilewiseRaises(i, [type |-> "ScanClientError",
                                            layer |-> i])
                     /\ tmpfh' = [tmpfh EXCEPT ![i] = ExitWith(@)]
                     /\ UNCHANGED yielded
    /\ UNCHANGED <<image_reference, manifest, blob_content, layer_blobs,
                   executor, future, cur, fetches, aggVars, waitVars, hookVars>>

\* a reader whose failure behind the first entries just ended the archive
FilewiseTarError_EndsQuietly(i) ==
    /\ Draining(i)
    /\ blob_pc[i] = "filewise"
    /\ ~HasEntry(i)
    /\ blob_content[layer_blobs[i]].corrupt
    /\ tmpfh' = [tmpfh EXCEPT ![i] = ExitWith(@)]
    /\ IF entry_pos[i] > 0
       THEN /\ blob_pc' = [blob_pc EXCEPT ![i] = "exhausted"]
            /\ UNCHANGED <<blob_exc, img_pc, raised>>
       ELSE FilewiseRaises(i, [type |-> "TarError", layer |-> i])
    /\ UNCHANGED <<image_reference, manifest, blob_content, layer_blobs,
                   executor, future, cur, entry_pos, fetches, calls, yielded,
                   aggVars, waitVars, hookVars>>

\* scan.py:257-261 and 227: the tar reader raises TarError, when opening the
\* archive or behind the entries read; the temporary file is closed and the
\* except clause takes over
FilewiseTarError(i) ==
    /\ Draining(i)
    /\ blob_pc[i] = "filewise"
    /\ ~HasEntry(i)
    /\ blob_content[layer_blobs[i]].corrupt
    /\ tmpfh' = [tmpfh EXCEPT ![i] = ExitWith(@)]
    /\ FilewiseRaises(i, [type |-> "TarError", layer |-> i])
    /\ UNCHANGED <<image_reference, manifest, blob_content, layer_blobs,
                   executor, future, cur, entry_pos, fetches, calls, yielded,
                   aggVars, waitVars, hookVars>>

\* scan.py:261: the archive ends; both with-blocks are left and the
\* generator is exhausted
FilewiseEnd(i) ==
    /\ Draining(i)
    /\ blob_pc[i] = "filewise"
    /\ ~HasEntry(i)
    /\ ~blob_content[layer_blobs[i]].corrupt
    /\ tmpfh' = [tmpfh EXCEPT ![i] = ExitWith(@)]
    /\ blob_pc' = [blob_pc EXCEPT ![i] = "exhausted"]
    /\ UNCHANGED <<image_reference, manifest, blob_content, layer_blobs,
                   img_pc, executor, future, cur, entry_pos, blob_exc,
                   fetches, calls, yielded, raised, aggVars, waitVars, hookVars>>

\* scan.py:279-288: the blob is requested again and scanned as a whole
Layerwise(i) ==
    /\ Draining(i)
    /\ blob_pc[i] = "layerwise"
    /\ fetches' = Append(fetches, [layer |-> i, digest |-> layer_blobs[i],
                                   path |-> "layerwise", thread |-> CallerThread])
    /\ LET name == LayerwiseName(image_reference, layer_blobs[i])
       IN  \E outcome \in {"ok", "blob_raises", "scan_raises"} :
             CASE outcome = "ok" ->
                    /\ calls' = Append(calls, [layer |-> i, name |-> name,
                                               thread |-> CallerThread])
                    /\ yielded' = Append(yielded, [layer |-> i, name |-> name])
                    /\ blob_pc' = [blob_pc EXCEPT ![i] = "exhausted"]
                    /\ UNCHANGED <<blob_exc, img_pc, raised>>
               [] outcome = "blob_raises" ->
                    /\ BlobRaises(i, [type |-> "RegistryError", layer |-> i])
                    /\ UNCHANGED <<calls, yielded>>
               [] outcome = "scan_raises" ->
                    /\ calls' = Append(calls, [layer |-> i, name |-> name,
                                               thread |-> CallerThread])
                    /\ BlobRaises(i, [type |-> "ScanClientError", layer |-> i])
                    /\ UNCHANGED yielded
    /\ UNCHANGED <<image_reference, manifest, blob_content, layer_blobs,
                   executor, future, cur, entry_pos, tmpfh, aggVars, waitVars, hookVars>>

\* the generator of the current layer has ended: scan_oci_image takes the
\* next result of executor.map (scan.py:208), or is exhausted itself
Advance ==
    /\ img_pc \in {"pool", "single"}
    /\ cur \in Layers
    /\ blob_pc[cur] = "exhausted"
    /\ IF cur < Len(layer_blobs)
       THEN cur' = cur + 1 /\ UNCHANGED img_pc
       ELSE img_pc' = "done" /\ UNCHANGED cur
    /\ UNCHANGED <<image_reference, manifest, blob_content, layer_blobs,
                   executor, future, blob_pc, entry_pos, blob_exc, tmpfh,
                   fetches, calls, yielded, raised, aggVars, waitVars, hookVars>>

\* scan.py:206 is the only mention of the executor: no statement shuts it
\* down, and its threads end only when the garbage collector finds the
\* object unreferenced, at some moment after scan_oci_image has finished
CollectExecutor ==
    /\ img_pc \in {"done", "raised"}
    /\ executor = "open"
    /\ executor' = "collected"
    /\ UNCHANGED <<image_reference, manifest, blob_content, layer_blobs,
                   img_pc, future, cur, blob_pc, entry_pos, blob_exc, tmpfh,
                   fetches, calls, yielded, raised, aggVars, waitVars, hookVars>>

\* the aggregator at rest: the scan is checked on its own
AggIdle ==
    /\ resource = [access |-> "OciAccess", imageReference |-> "registry/image:1"]
    /\ results = <<>>
    /\ AggEntry

\* scan_oci_image(image_reference, oci_client, clamav_client) is called on an
\* image of up to MaxLayers layers whose blobs hold up to MaxEntries entries
Init ==
    /\ image_reference = "registry/image:1"
    /\ \E n \in 0..MaxLayers :
         /\ manifest \in ManifestsOf([i \in 1..n |-> Digest(i)])
         /\ \E c \in [1..n -> BlobContents] :
              /\ TotalEntries(c, n) <= MaxEntries
              /\ blob_content = [d \in {Digest(i) : i \in 1..n} |->
                                   c[CHOOSE i \in 1..n : Digest(i) = d]]
         /\ blob_pc = [i \in 1..n |-> "none"]
         /\ entry_pos = [i \in 1..n |-> 0]
         /\ blob_exc = [i \in 1..n |-> NoValue]
         /\ tmpfh = [i \in 1..n |-> "none"]
    /\ layer_blobs = <<>>
    /\ img_pc = "start"
    /\ executor = "none"
    /\ future = <<>>
    /\ cur = 0
    /\ fetches = <<>>
    /\ calls = <<>>
    /\ yielded = <<>>
    /\ raised = NoValue
    /\ AggIdle
    /\ WaitIdle
    /\ HookIdle

Next ==
    \/ Enumerate
    \/ CreatePool
    \/ ScanSingle
    \/ ScanNone
    \/ \E i \in Layers : WorkerRun(i)
    \/ \E i \in Layers : FilewiseFetch(i)
    \/ \E i \in Layers : FilewiseSkip(i)
    \/ \E i \in Layers : FilewiseScan(i)
    \/ \E i \in Layers : FilewiseTarError(i)
    \/ \E i \in Layers : FilewiseEnd(i)
    \/ \E i \in Layers : Layerwise(i)
    \/ Advance
    \/ CollectExecutor

Spec == Init /\ [][Next]_vars

\* ---- _iter_layers on its own, over manifests of more shapes

\* the digests the layers of the manifests are taken from
LayerDigests == {Digest(i) : i \in 1..MaxLayers}

\* the ways to cut a sequence of n layers into k consecutive parts
Cuts(n, k) ==
    {c \in [1..(k - 1) -> 0..n] :
        \A a, b \in 1..(k - 1) : a <= b => c[a] <= c[b]}

\* the j-th of the k parts of ls under the cut c
Part(ls, c, k, j) ==
    SubSeq(ls, (IF j = 1 THEN 0 ELSE c[j - 1]) + 1,
               IF j = k THEN Len(ls) ELSE c[j])

\* the j-th entry of a manifest list, for the layers part: an image manifest
\* or, nested, a manifest list of two image manifests
ListEntry(j, part, nested) ==
    LET h == (Len(part) + 1) \div 2
    IN  IF nested
        THEN SubManifest(j, ManifestList(
                 <<SubManifest(10 * j + 1, ImageManifest(SubSeq(part, 1, h))),
                   SubManifest(10 * j + 2,
                               ImageManifest(SubSeq(part, h + 1, Len(part))))>>))
        ELSE SubManifest(j, ImageManifest(part))

\* the manifest lists of up to MaxSubs entries over the layers ls
ManifestListsOf(ls) ==
    UNION { { ManifestList([j \in 1..k |->
                               ListEntry(j, Part(ls, c, k, j), nested[j])]) :
              c \in Cuts(Len(ls), k), nested \in [1..k -> BOOLEAN] } :
            k \in 1..MaxSubs }

\* the manifests an image of the layers ls is served with: an image manifest,
\* a manifest list, or either with something unsupported in one place
ManifestTrees(ls) ==
    {ImageManifest(ls), OtherManifest}
    \cup (IF ls = <<>> THEN {ManifestList(<<>>)} ELSE {})
    \cup ManifestListsOf(ls)
    \cup UNION { { [m EXCEPT !.manifests[p].manifest = OtherManifest] :
                   p \in 1..Len(m.manifests) } :
                 m \in ManifestListsOf(ls) }

\* _iter_layers is called on an image of up to MaxListLayers layers
InitLayers ==
    /\ image_reference = "registry/image:1"
    /\ \E ls \in SeqsUpTo(LayerDigests, MaxListLayers) :
         manifest \in ManifestTrees(ls)
    /\ blob_content = <<>>
    /\ blob_pc = <<>>
    /\ entry_pos = <<>>
    /\ blob_exc = <<>>
    /\ tmpfh = <<>>
    /\ layer_blobs = <<>>
    /\ img_pc = "start"
    /\ executor = "none"
    /\ future = <<>>
    /\ cur = 0
    /\ fetches = <<>>
    /\ calls = <<>>
    /\ yielded = <<>>
    /\ raised = NoValue
    /\ AggIdle
    /\ WaitIdle
    /\ HookIdle

NextLayers == Enumerate

SpecLayers == InitLayers /\ [][NextLayers]_vars

\* ---------------------------------------------------- scanning: properties

\* the names of the events of s that belong to layer i, in order
NamesOf(s, i) ==
    LET mine == SelectSeq(s, LAMBDA e : e.layer = i)
    IN  [j \in 1..Len(mine) |-> mine[j].name]

IsPrefix(a, b) == Len(a) <= Len(b) /\ a = SubSeq(b, 1, Len(a))

\* the names under which the regular files among the entries from the j-th
\* on are to be scanned
RECURSIVE RegularFileNames(_, _, _)
RegularFileNames(entries, j, digest) ==
    IF j > Len(entries) THEN <<>>
    ELSE (IF entries[j] = "REGTYPE"
          THEN <<"registry/image:1:" \o digest \o ":entry" \o ToString(j)>>
          ELSE <<>>)
         \o RegularFileNames(entries, j + 1, digest)

WellFormedTar(i) == ~blob_content[Digest(i)].corrupt

NotTar(i) ==
    blob_content[Digest(i)].corrupt /\ blob_content[Digest(i)].entries = <<>>

\* the names of all the results the scan of layer i yields when nothing
\* raises: those of its regular files and, for a corrupt blob, the blob's
AllResultNames(i) ==
    RegularFileNames(blob_content[Digest(i)].entries, 1, Digest(i))
    \o (IF blob_content[Digest(i)].corrupt
        THEN <<"registry/image:1:" \o Digest(i)>>
        ELSE <<>>)

\* C7: for a blob that is a well-formed tar archive, scan_oci_blob issues one
\* scan call per regular-file entry, in entry order, named
\* "{image_reference}:{digest}:{entry_name}", none for any other entry and
\* none for the whole blob: at every moment the calls made for the blob are
\* the first of these, and all of them once the generator is exhausted.
C7_OneScanPerRegularFile ==
    \A i \in DOMAIN blob_pc :
        WellFormedTar(i) =>
            LET expected == RegularFileNames(blob_content[Digest(i)].entries,
                                             1, Digest(i))
            IN  /\ IsPrefix(NamesOf(calls, i), expected)
                /\ blob_pc[i] = "exhausted"
                     => /\ NamesOf(calls, i) = expected
                        /\ NamesOf(yielded, i) = expected

\* a directory passed over and the regular file behind it scanned
C7_Witness ==
    /\ Len(layer_blobs) = 2
    /\ blob_content[Digest(2)] = [entries |-> <<"DIRTYPE", "REGTYPE">>,
                                  corrupt |-> FALSE]
    /\ blob_pc[2] = "exhausted"
    /\ NamesOf(calls, 2) = <<"registry/image:1:sha256:2:entry2">>

\* C8: for a blob that is not tar-formatted, scan_oci_blob issues one scan
\* call, named "{image_reference}:{digest}", yields that one result, and
\* never raises the TarError to its caller.
C8_NotTarScannedWhole ==
    \A i \in DOMAIN blob_pc :
        NotTar(i) =>
            LET whole == <<"registry/image:1:" \o Digest(i)>>
            IN  /\ IsPrefix(NamesOf(calls, i), whole)
                /\ blob_pc[i] = "exhausted"
                     => /\ NamesOf(calls, i) = whole
                        /\ NamesOf(yielded, i) = whole
                /\ blob_pc[i] # "raised" => blob_exc[i] = NoValue
                /\ blob_pc[i] = "raised" => blob_exc[i].type # "TarError"
                /\ raised # NoValue => raised.type # "TarError"

\* a blob that is no tar archive, scanned as a whole
C8_Witness ==
    /\ Len(layer_blobs) = 1
    /\ NotTar(1)
    /\ blob_pc[1] = "exhausted"
    /\ tmpfh[1] = "closed"
    /\ Len(fetches) = 2
    /\ calls = <<[layer |-> 1, name |-> "registry/image:1:sha256:1",
                  thread |-> CallerThread]>>
    /\ yielded = <<[layer |-> 1, name |-> "registry/image:1:sha256:1"]>>

\* C9, as claimed: for an image of more than one layer the pool has one task
\* per layer and the blob requests and scan calls of the layers are made by
\* the threads of the pool, each layer's by its own task, so that those of
\* different layers can be in progress at the same time.
C9_AsClaimed ==
    executor = "open"
        => /\ Len(future) = Len(layer_blobs)
           /\ \A k \in 1..Len(fetches) : fetches[k].thread = PoolThread
           /\ \A k \in 1..Len(calls) : calls[k].thread = PoolThread

\* What the code does instead: a layer's generator is started only when the
\* generators of all the layers before it have ended, so no two layers are
\* ever in progress together.
LayersScannedOneByOne ==
    \A i, j \in DOMAIN blob_pc :
        (i < j /\ blob_pc[j] \notin {"none", "created"})
            => blob_pc[i] = "exhausted"

\* C10: if the scan of a layer raises, scan_oci_image raises that same
\* exception; it never completes normally with the results of a layer
\* missing.
C10_LayerExceptionPropagates ==
    /\ \A i \in DOMAIN blob_pc :
         blob_pc[i] = "raised"
            => /\ img_pc = "raised"
               /\ raised = blob_exc[i]
               /\ blob_exc[i].type \in {"RegistryError", "ScanClientError"}
    /\ img_pc = "done"
         => /\ raised = NoValue
            /\ \A i \in Layers :
                 /\ blob_pc[i] = "exhausted"
                 /\ NamesOf(yielded, i) = NamesOf(calls, i)
                 /\ NamesOf(yielded, i) = AllResultNames(i)

\* the second of two layers raises behind a result of the first
C10_Witness ==
    /\ img_pc = "raised"
    /\ Len(layer_blobs) = 2
    /\ blob_pc[1] = "exhausted"
    /\ Len(yielded) = 1
    /\ blob_pc[2] = "raised"
    /\ raised = [type |-> "ScanClientError", layer |-> 2]

\* the layers of the results yielded so far, in the order of their yield
YieldedLayers == [k \in 1..Len(yielded) |-> yielded[k].layer]

\* C11: in the sequence scan_oci_image yields, the results of one layer are
\* contiguous, no result of another layer standing between two of them, and
\* the results of a layer scanned file-wise stand in the order of the entries
\* of its archive.
C11_LayerResultsContiguous ==
    /\ \A a, b, c \in 1..Len(yielded) :
         (a < b /\ b < c /\ yielded[a].layer = yielded[c].layer)
            => yielded[b].layer = yielded[a].layer
    /\ \A i \in DOMAIN blob_pc :
         WellFormedTar(i)
            => IsPrefix(NamesOf(yielded, i),
                        RegularFileNames(blob_content[Digest(i)].entries, 1,
                                         Digest(i)))

\* both files of the first layer, in entry order, before the second layer
C11_Witness ==
    /\ img_pc = "done"
    /\ YieldedLayers = <<1, 1, 2>>
    /\ WellFormedTar(1)
    /\ yielded[1].name = "registry/image:1:sha256:1:entry1"
    /\ yielded[2].name = "registry/image:1:sha256:1:entry2"

\* the results scan_oci_blob yields for layer i when nothing raises, as
\* scan_oci_image passes them on
BlobResults(i) ==
    [k \in 1..Len(AllResultNames(i)) |->
        [layer |-> i, name |-> AllResultNames(i)[k]]]

\* C12: on an image of exactly one layer scan_oci_image creates no worker
\* pool and yields exactly the results scan_oci_blob yields for that layer,
\* which is also what the pool path yields for each of its layers.
C12_SingleLayerWithoutPool ==
    /\ (img_pc # "start" /\ Len(layer_blobs) = 1)
         => /\ executor = "none"
            /\ future = <<>>
            /\ IsPrefix(yielded, BlobResults(1))
            /\ img_pc = "done" => yielded = BlobResults(1)
    /\ (img_pc = "done" /\ Len(layer_blobs) > 1)
         => /\ executor # "none"
            /\ \A i \in Layers :
                 SelectSeq(yielded, LAMBDA y : y.layer = i) = BlobResults(i)

\* the one layer of an image scanned to its end, two results and no pool
C12_Witness ==
    /\ img_pc = "done"
    /\ Len(layer_blobs) = 1
    /\ executor = "none"
    /\ Len(yielded) = 2
    /\ yielded = BlobResults(1)

\* C16, as claimed: the worker pool created for an image of more than one
\* layer is shut down by the time scan_oci_image finishes, whether it ends
\* normally or by raising.
C16_AsClaimed ==
    img_pc \in {"done", "raised"} => executor # "open"

\* C17: the temporary file of a file-wise blob scan belongs to that one
\* invocation, being open only while its own archive is read, and it is
\* closed on every way out of the invocation: when the archive ends, when
\* the archive format fails (before the blob is requested and scanned as a
\* whole) and when the scan client raises.
C17_SpillBufferReleased ==
    /\ \A i \in DOMAIN blob_pc :
         /\ tmpfh[i] = "open" => (blob_pc[i] = "filewise" /\ cur = i)
         /\ blob_pc[i] \in {"layerwise", "exhausted"} => tmpfh[i] = "closed"
         /\ blob_pc[i] = "raised" => tmpfh[i] \in {"none", "closed"}
         /\ tmpfh[i] = "none" => NamesOf(calls, i) = <<>>
    /\ \A k \in 1..Len(fetches) :
         fetches[k].path = "layerwise" => tmpfh[fetches[k].layer] = "closed"
    /\ \A i, j \in DOMAIN blob_pc :
         (tmpfh[i] = "open" /\ tmpfh[j] = "open") => i = j

\* the scan client raises for the second file of an archive
C17_Witness ==
    /\ Len(layer_blobs) = 1
    /\ blob_pc[1] = "raised"
    /\ blob_exc[1].type = "ScanClientError"
    /\ entry_pos[1] = 2
    /\ Len(NamesOf(calls, 1)) = 2
    /\ tmpfh[1] = "closed"

\* C18: an error of the scan client, in the file-wise or in the layer-wise
\* scan of a blob, leaves scan_oci_blob as it was raised, the failed call
\* being the last one made; it does not make the blob be scanned as a whole,
\* which only a failure of the archive format does, and nothing is submitted
\* to the scan client twice.
C18_ScanClientErrorPropagates ==
    /\ \A i \in DOMAIN blob_pc :
         (blob_pc[i] = "raised" /\ blob_exc[i].type = "ScanClientError")
            => /\ img_pc = "raised"
               /\ raised = [type |-> "ScanClientError", layer |-> i]
               /\ calls # <<>>
               /\ calls[Len(calls)].layer = i
               /\ calls[Len(calls)].name # "registry/image:1:" \o Digest(i)
                    => \A k \in 1..Len(fetches) :
                         fetches[k].layer = i => fetches[k].path = "filewise"
    /\ \A k \in 1..Len(fetches) :
         fetches[k].path = "layerwise"
            => LET c == blob_content[fetches[k].digest]
               IN  c.corrupt /\ entry_pos[fetches[k].layer] = Len(c.entries)
    /\ \A a, b \in 1..Len(calls) : a < b => calls[a].name # calls[b].name
    /\ Len(yielded) <= Len(calls)
    /\ Len(calls) <= Len(yielded) + 1
    /\ Len(calls) = Len(yielded) + 1
         => (raised # NoValue /\ raised.type = "ScanClientError")

\* the scan client raises for the one file of a well-formed archive
C18_Witness ==
    /\ Len(layer_blobs) = 1
    /\ WellFormedTar(1)
    /\ blob_pc[1] = "raised"
    /\ raised = [type |-> "ScanClientError", layer |-> 1]
    /\ calls = <<[layer |-> 1, name |-> "registry/image:1:sha256:1:entry1",
                  thread |-> CallerThread]>>
    /\ Len(fetches) = 1
    /\ yielded = <<>>

\* the ways in which the blob of layer i has been requested so far
PathsOf(i) ==
    LET own == SelectSeq(fetches, LAMBDA f : f.layer = i)
    IN  [k \in 1..Len(own) |-> own[k].path]

\* C19: in an image of more than one layer the fallback stays with the blob
\* whose archive format failed: only that blob is requested a second time and
\* scanned as a whole, and every other blob that is a well-formed tar archive
\* is scanned file-wise, its results being those of its own regular files
\* whatever became of the blobs beside it.
C19_FallbackIsBlobLocal ==
    Len(layer_blobs) > 1
        => \A i \in Layers :
             /\ WellFormedTar(i)
                  => /\ IsPrefix(PathsOf(i), <<"filewise">>)
                     /\ blob_pc[i] # "layerwise"
                     /\ blob_pc[i] = "exhausted"
                          => /\ PathsOf(i) = <<"filewise">>
                             /\ NamesOf(yielded, i)
                                  = RegularFileNames(
                                        blob_content[Digest(i)].entries, 1,
                                        Digest(i))
             /\ ~WellFormedTar(i)
                  => /\ IsPrefix(PathsOf(i), <<"filewise", "layerwise">>)
                     /\ blob_pc[i] = "exhausted"
                          => PathsOf(i) = <<"filewise", "layerwise">>

\* the first blob is no tar archive and scanned as a whole, the second one
\* behind it file-wise
C19_Witness ==
    /\ img_pc = "done"
    /\ Len(layer_blobs) = 2
    /\ NotTar(1)
    /\ PathsOf(1) = <<"filewise", "layerwise">>
    /\ blob_content[Digest(2)] = [entries |-> <<"REGTYPE", "REGTYPE">>,
                                  corrupt |-> FALSE]
    /\ PathsOf(2) = <<"filewise">>
    /\ NamesOf(yielded, 2) = <<"registry/image:1:sha256:2:entry1",
                               "registry/image:1:sha256:2:entry2">>

\* m, or a manifest a list of m leads to, is neither an image manifest nor a
\* manifest list
RECURSIVE HoldsUnsupported(_)
HoldsUnsupported(m) ==
    IF m.kind = "OciImageManifest" THEN FALSE
    ELSE IF m.kind = "OciImageManifestList"
         THEN \E k \in 1..Len(m.manifests) :
                HoldsUnsupported(m.manifests[k].manifest)
         ELSE TRUE

\* the layers of the image manifests of m, read off the manifests as the
\* registry holds them, list entry by list entry
RECURSIVE FlattenedLayers(_)
RECURSIVE FlattenedEntries(_)
FlattenedEntries(subs) ==
    IF subs = <<>> THEN <<>>
    ELSE FlattenedLayers(Head(subs).manifest) \o FlattenedEntries(Tail(subs))

FlattenedLayers(m) ==
    IF m.kind = "OciImageManifest" THEN m.layers
    ELSE IF m.kind = "OciImageManifestList" THEN FlattenedEntries(m.manifests)
         ELSE <<>>

\* C20: scan_oci_image has enumerated all the layers before it requests a
\* blob or calls the scan client; and if the image's manifest, or one a
\* manifest list leads to, is neither an image manifest nor a manifest list,
\* the call raises NotImplementedError with no blob requested, no scan call
\* made and no result yielded.
C20_EnumerationBeforeScan ==
    /\ (fetches # <<>> \/ calls # <<>> \/ yielded # <<>>)
         => /\ img_pc \notin {"start", "dispatch"}
            /\ layer_blobs = FlattenedLayers(manifest)
            /\ ~HoldsUnsupported(manifest)
    /\ (HoldsUnsupported(manifest) /\ img_pc # "start")
         => /\ img_pc = "raised"
            /\ raised = [type |-> "NotImplementedError", layer |-> 0]
            /\ layer_blobs = <<>>
            /\ fetches = <<>> /\ calls = <<>> /\ yielded = <<>>
            /\ executor = "none"

\* the manifest behind a sub-manifest of two layers is unsupported
C20_Witness ==
    /\ img_pc = "raised"
    /\ raised.type = "NotImplementedError"
    /\ manifest = ManifestList(
                      <<SubManifest(1, ImageManifest(<<Digest(1), Digest(2)>>)),
                        SubManifest(2, OtherManifest)>>)
    /\ DOMAIN blob_content = {Digest(1), Digest(2)}
    /\ fetches = <<>>
    /\ calls = <<>>

\* C13: _iter_layers yields the layers of an image manifest in the order of
\* the manifest and, for a manifest list, the layers of its sub-manifests one
\* sub-manifest after the other in the order of the list, depth-first, each
\* sub-manifest being found under "{repository}@{digest}"; no layer is left
\* out and a layer listed twice is yielded twice.
C13_LayersInManifestOrder ==
    (img_pc # "start" /\ ~HoldsUnsupported(manifest))
        => /\ img_pc = "dispatch"
           /\ raised = NoValue
           /\ layer_blobs = FlattenedLayers(manifest)
           /\ manifest.kind = "OciImageManifest"
                => layer_blobs = manifest.layers
           /\ \A e \in SubEntries(manifest) :
                OciClientManifest("registry/image@" \o e.digest) = e.manifest

\* a manifest list of two sub-manifests of the same two layers each
C13_Witness ==
    /\ img_pc = "dispatch"
    /\ manifest = ManifestList(
                      <<SubManifest(1, ImageManifest(<<Digest(1), Digest(2)>>)),
                        SubManifest(2, ImageManifest(<<Digest(1), Digest(2)>>))>>)
    /\ layer_blobs = <<"sha256:1", "sha256:2", "sha256:1", "sha256:2">>

\* C21: when the archive format of a blob fails only behind k >= 1 regular
\* files that have been scanned, scan_oci_blob yields the k file-wise results
\* and behind them exactly one result for the whole blob, named
\* "{image_reference}:{digest}": k + 1 results for the blob.
C21_PartialArchiveThenWholeBlob ==
    \A i \in DOMAIN blob_pc :
        LET c == blob_content[Digest(i)]
            files == RegularFileNames(c.entries, 1, Digest(i))
            k == Len(files)
            got == NamesOf(yielded, i)
        IN  (c.corrupt /\ k >= 1)
                => /\ blob_pc[i] = "layerwise" => got = files
                   /\ blob_pc[i] = "exhausted"
                        => /\ Len(got) = k + 1
                           /\ SubSeq(got, 1, k) = files
                           /\ got[k + 1] = "registry/image:1:" \o Digest(i)
                           /\ PathsOf(i) = <<"filewise", "layerwise">>
                   /\ Len(got) <= k + 1

\* an archive that fails behind its two regular files: three results
C21_Witness ==
    /\ Len(layer_blobs) = 1
    /\ blob_content[Digest(1)] = [entries |-> <<"REGTYPE", "REGTYPE">>,
                                  corrupt |-> TRUE]
    /\ blob_pc[1] = "exhausted"
    /\ NamesOf(yielded, 1) = <<"registry/image:1:sha256:1:entry1",
                               "registry/image:1:sha256:1:entry2",
                               "registry/image:1:sha256:1">>

\* C22: on an image without any layer, be it an image manifest of no layers
\* or a manifest list of no layer in all, scan_oci_image ends with an error
\* (IndexError), having requested no blob and called no scan; it never ends
\* normally with no result.
C22_NoLayersRaises ==
    (img_pc # "start" /\ ~HoldsUnsupported(manifest)
                      /\ FlattenedLayers(manifest) = <<>>)
        => /\ img_pc \in {"dispatch", "raised"}
           /\ img_pc = "dispatch" => ENABLED ScanNone
           /\ img_pc = "raised"
                => raised = [type |-> "IndexError", layer |-> 0]
           /\ executor = "none"
           /\ fetches = <<>> /\ calls = <<>> /\ yielded = <<>>

\* the error for a manifest list without entries
C22_Witness ==
    /\ manifest = ManifestList(<<>>)
    /\ img_pc = "raised"
    /\ raised.type = "IndexError"
    /\ calls = <<>>

\* ===================================================== waiting for a deployment
\* KubernetesDeploymentHelper.wait_until_deployment_available,
\* kube/helper.py:278-307

\* the events of the watch: one without object, or a deployment of some name
\* whose status gives its available replicas, or none (None)
WatchEvents ==
    {[object |-> "None"]}
    \cup [object : {"deployment"},
          name : {"name", "other"},
          available_replicas_is_none : {TRUE},
          available_replicas : {0}]
    \cup [object : {"deployment"},
          name : {"name", "other"},
          available_replicas_is_none : {FALSE},
          available_replicas : 0..1]

\* helper.py:287, int(time.time()): the whole seconds of the clock
IntTime(t) == t \div TicksPerSecond

\* helper.py:288 and 302: start_time + timeout_seconds, in ticks
Deadline == (start_time + timeout_seconds) * TicksPerSecond

\* helper.py:296-300: the event shows the deployment with an available replica
IsAvailable(ev) ==
    /\ ev.object # "None"
    /\ ev.name = "name"
    /\ ~ev.available_replicas_is_none
    /\ ev.available_replicas > 0

\* helper.py:288: the condition of the while-loop is tested; the watch is
\* started, or the loop is left and the function ends without a return
\* statement
WhileTest ==
    /\ wait_pc = "while"
    /\ IF Deadline > clock
       THEN /\ wait_pc' = "stream"
            /\ stream_start' = clock
            /\ UNCHANGED wait_return
       ELSE /\ wait_pc' = "returned"
            /\ wait_return' = "None"
            /\ UNCHANGED stream_start
    /\ UNCHANGED <<clock, timeout_seconds, start_time, event, seen_available,
                   errors, aggVars, scanVars, hookVars>>

\* time passes while the for-loop waits for the stream
Tick ==
    /\ wait_pc = "stream"
    /\ clock < MaxClock
    /\ clock' = clock + 1
    /\ UNCHANGED <<timeout_seconds, start_time, wait_pc, stream_start, event,
                   seen_available, errors, wait_return, aggVars, scanVars, hookVars>>

\* helper.py:290-303: the stream delivers an event
StreamEvent(ev) ==
    /\ wait_pc = "stream"
    /\ event' = ev
    /\ seen_available' = (seen_available \/ IsAvailable(ev))
    /\ IF IsAvailable(ev)
       THEN wait_pc' = "returned" /\ wait_return' = "True"
       ELSE IF Deadline < clock
            THEN wait_pc' = "returned" /\ wait_return' = "False"
            ELSE UNCHANGED <<wait_pc, wait_return>>
    /\ UNCHANGED <<clock, timeout_seconds, start_time, stream_start, errors,
                   aggVars, scanVars, hookVars>>

\* helper.py:293 and 305: the watch ends after its own timeout_seconds
StreamTimeout ==
    /\ wait_pc = "stream"
    /\ clock >= stream_start + timeout_seconds * TicksPerSecond
    /\ wait_pc' = "returned"
    /\ wait_return' = "False"
    /\ UNCHANGED <<clock, timeout_seconds, start_time, stream_start, event,
                   seen_available, errors, aggVars, scanVars, hookVars>>

\* helper.py:306-307: the stream raises ProtocolError, which is logged and
\* ignored; the while-loop goes round
StreamProtocolError ==
    /\ wait_pc = "stream"
    /\ errors < MaxErrors
    /\ errors' = errors + 1
    /\ wait_pc' = "while"
    /\ UNCHANGED <<clock, timeout_seconds, start_time, stream_start, event,
                   seen_available, wait_return, aggVars, scanVars, hookVars>>

\* wait_until_deployment_available(namespace, name, timeout_seconds) is
\* called, at a time that need not be a whole second
InitWait ==
    /\ clock \in 0..(TicksPerSecond - 1)
    /\ timeout_seconds \in 1..MaxTimeout
    /\ start_time = IntTime(clock)
    /\ wait_pc = "while"
    /\ stream_start = 0
    /\ event = NoValue
    /\ seen_available = FALSE
    /\ errors = 0
    /\ wait_return = NoValue
    /\ ScanIdle
    /\ AggIdle
    /\ HookIdle

NextWait ==
    \/ WhileTest
    \/ Tick
    \/ \E ev \in WatchEvents : StreamEvent(ev)
    \/ StreamTimeout
    \/ StreamProtocolError

SpecWait == InitWait /\ [][NextWait]_vars

\* the timeout has elapsed
TimedOut == clock >= Deadline

\* C15, as claimed: wait_until_deployment_available returns True when the
\* deployment has been seen with an available replica, and returns False
\* whenever the timeout elapses first, also when ProtocolErrors were ignored
\* and the watch was started again.
C15_AsClaimed ==
    wait_pc = "returned"
        => /\ seen_available => wait_return = "True"
           /\ (~seen_available /\ TimedOut) => wait_return = "False"

\* What the code does: a return without the deployment seen available is
\* False from inside the stream, but None when the while-loop is left, which
\* happens only behind an ignored ProtocolError.
WaitReturnsNoneBehindError ==
    wait_pc = "returned"
        => /\ wait_return \in {"True", "False", "None"}
           /\ wait_return = "True" <=> seen_available
           /\ wait_return = "None" => (errors > 0 /\ TimedOut)

\* ================================================ syncing organization webhooks
\* sync_org_webhooks, concourse/util.py:69-94

\* what _enumerate_required_org_webhooks yields for one webhook, with what
\* create_or_update_org_hook will do for it: return, or raise an Exception
RequiredHooks ==
    [organization_name : {"org1", "org2"},
     webhook_url : {"https://whd/github-webhook"},
     raises : BOOLEAN]

\* util.py:85-88: the record logged for a webhook that was set
CreatedMessage(hook) ==
    [level |-> "info",
     message |-> "Created/updated organization hook on github.com for "
                 \o "organization_name='" \o hook.organization_name \o "': "
                 \o hook.webhook_url]

\* util.py:91: the record logged for a webhook whose call raised
ErrorMessage(hook) ==
    [level |-> "warning",
     message |-> "organization_name='" \o hook.organization_name
                 \o "' - error: e"]

\* util.py:94: the summary
SummaryMessage ==
    [level |-> "warning",
     message |-> "Some webhooks could not be set - see above"]

\* util.py:76 and 90: failed_hooks behind one round of the for-loop, which
\* assigns 0 to it before the call and adds 1 when the call has raised
RoundFailedHooks(before, hook) ==
    [bound |-> TRUE, value |-> IF hook.raises THEN 0 + 1 ELSE 0]

\* util.py:72-91: one round of the for-loop
HookIterate ==
    /\ hook_pc = "loop"
    /\ hook_pos < Len(required)
    /\ LET hook == required[hook_pos + 1]
       IN  /\ attempts' = Append(attempts, hook_pos + 1)
           /\ failed_hooks' = RoundFailedHooks(failed_hooks, hook)
           /\ log' = Append(log, IF hook.raises THEN ErrorMessage(hook)
                                 ELSE CreatedMessage(hook))
    /\ hook_pos' = hook_pos + 1
    /\ UNCHANGED <<required, hook_pc, hook_raised, aggVars, scanVars,
                   waitVars>>

\* util.py:93-94: behind the loop failed_hooks is read, which raises
\* UnboundLocalError when no round has assigned it
HookFinish ==
    /\ hook_pc = "loop"
    /\ hook_pos = Len(required)
    /\ IF ~failed_hooks.bound
       THEN /\ hook_pc' = "raised"
            /\ hook_raised' = "UnboundLocalError"
            /\ UNCHANGED log
       ELSE /\ hook_pc' = "returned"
            /\ log' = IF failed_hooks.value # 0
                      THEN Append(log, SummaryMessage) ELSE log
            /\ UNCHANGED hook_raised
    /\ UNCHANGED <<required, hook_pos, failed_hooks, attempts, aggVars,
                   scanVars, waitVars>>

\* sync_org_webhooks(whd_deployment_cfg) is called with up to MaxHooks
\* required webhooks
InitHooks ==
    /\ required \in SeqsUpTo(RequiredHooks, MaxHooks)
    /\ hook_pos = 0
    /\ failed_hooks = Unbound
    /\ attempts = <<>>
    /\ log = <<>>
    /\ hook_pc = "loop"
    /\ hook_raised = "none"
    /\ ScanIdle
    /\ AggIdle
    /\ WaitIdle

NextHooks == HookIterate \/ HookFinish

SpecHooks == InitHooks /\ [][NextHooks]_vars

HookDone == hook_pc \in {"returned", "raised"}

\* the call for some required webhook raises
SomeHookFails == \E k \in 1..Len(required) : required[k].raises

\* the summary warning has been logged
SummaryLogged == \E k \in 1..Len(log) : log[k] = SummaryMessage

\* C23, as claimed: sync_org_webhooks calls create_or_update_org_hook for
\* every required webhook, also behind calls that raised, and logs the
\* summary warning behind the last call if and only if some call raised;
\* with no webhook required it returns normally without the warning.
C23_AsClaimed ==
    HookDone
        => /\ attempts = [k \in 1..Len(required) |-> k]
           /\ hook_pc = "returned"
           /\ SummaryLogged <=> SomeHookFails

\* What the code does: failed_hooks is set to 0 in every round, so the
\* summary tells of the last webhook only, and with no webhook required the
\* name is unbound when it is read.
SummaryTellsOfLastHook ==
    HookDone
        => /\ attempts = [k \in 1..Len(required) |-> k]
           /\ required = <<>> <=> hook_pc = "raised"
           /\ hook_pc = "raised" => hook_raised = "UnboundLocalError"
           /\ SummaryLogged
                <=> (required # <<>> /\ required[Len(required)].raises)
           /\ SummaryLogged => log[Len(log)] = SummaryMessage

====
